---- MODULE Spec2Model ----
(***************************************************************************)
(* Model of the Zenbase client SDK: the blocking ZenbaseClient and the     *)
(* AsyncZenbaseClient, their identity caches and the batch-run lifecycle   *)
(* (submit, poll with adaptive backoff, paginated result retrieval).       *)
(*                                                                         *)
(* In the sequential specifications one client instance executes one       *)
(* operation at a time.  Every action is one request/response exchange (or *)
(* one sleep) of the running operation together with all the local         *)
(* computation that follows it up to the next request, sleep, return or    *)
(* raise.  SpecAsync and SpecRace have several tasks call one              *)
(* AsyncZenbaseClient, interleaved at the await of a request.              *)
(*                                                                         *)
(* Durations are kept in half seconds (Scale = 2) because the code divides *)
(* the remaining count by two with true division.                          *)
(***************************************************************************)
EXTENDS Integers, Sequences, FiniteSets, TLC

VARIABLES
    variant,                            \* "sync": ZenbaseClient, "async": AsyncZenbaseClient
    optimizer_function_id_cache,        \* optimizer id -> function id
    batch_run_id_to_function_id_cache,  \* batch run id -> function id
    function_config_cache,              \* function id -> function configuration
    call,                               \* the operation in progress and its arguments
    pc,                                 \* position of the operation in progress
    locals,                             \* local variables of the operation in progress
    log,                                \* requests and sleeps issued by the operation, in order
    outcome,                            \* how the last operation ended
    remote_status,                      \* the remote service's state of the polled batch run
    remote_count,                       \* the count field the remote service reports for it
    remote_replies,                     \* the answers the remote service gives: "wellformed" or "any"
    received,                           \* the page records received by the operation, in order
    session,                            \* self.session: the connection context the client holds
    contexts,                           \* the connection contexts created so far: "open" or "closed"
    tasks                               \* the calls of concurrent tasks on an AsyncZenbaseClient

vars == <<variant, optimizer_function_id_cache, batch_run_id_to_function_id_cache,
          function_config_cache, call, pc, locals, log, outcome,
          remote_status, remote_count, remote_replies, received,
          session, contexts, tasks>>

remote == <<remote_status, remote_count, remote_replies>>

caches == <<optimizer_function_id_cache, batch_run_id_to_function_id_cache,
            function_config_cache>>

connection == <<session, contexts>>

----------------------------------------------------------------------------
(* Bounds and input sets *)

MaxPolls == 1          \* sleeps of one call while the remote run is RUNNING (one more after)
MaxRecords == 2        \* records the function-run-logs pages of one run hold in total
MaxItems == 2          \* items of a BatchFunctionInputList
MaxTasks == 2          \* tasks that call one AsyncZenbaseClient concurrently
MaxContexts == 2       \* connection contexts one AsyncZenbaseClient creates

Scale == 2             \* durations are in 1/Scale seconds
PageSize == 10         \* records per page, fixed server-side
InitialSleep == 10     \* seconds
MinSleep == 5          \* seconds
MaxSleep == 30         \* seconds

None == "None"
Variants == {"sync", "async"}
RUNNING == "RUNNING"
COMPLETED == "COMPLETED"
FAILED == "FAILED"
StatusEnum == {FAILED, COMPLETED, RUNNING}

BatchRunIds == {1, 2}
ObjectIds == {3, 5}
\* <<total_runs, completed_runs>> pairs the status endpoint reports
RunPairs == {<<100, 80>>, <<100, 0>>, <<100, 99>>, <<4, 9>>}
\* values of the count field of a function-run-logs page
Counts == {0, 1, 10, 11, 25}

OptimizerIds == {1, 2}
FunctionIds == {1, 2}
\* a batch run id is an integer or an opaque string: 1 and "1" are different ids
IntId(n) == [type |-> "int", v |-> n]
StrId(n) == [type |-> "str", v |-> n]
BatchRunKeys == {IntId(n) : n \in BatchRunIds} \cup {StrId(n) : n \in BatchRunIds}
\* the values an inputs mapping takes, and the schemas (a schema is the set of the
\* instances jsonschema.validate accepts for it)
InputValues == {"x", "y"}
Schemas == {{"x"}, {"x", "y"}}
\* the function configurations the service holds
Configs == [name : {"a"}, model : {"m1"}, input_schema : Schemas]
\* the bodies the service answers a PATCH of functions/f with
PatchResponses(f) == [id : {f}, name : {"a", "b"}, model : {"m1"}, input_schema : Schemas]
\* the function_config arguments of update_function_config: the fields to change,
\* None for a field left out (input_schema is left out of all of them)
PartialConfigs == [name : {None, "a", "b"}, model : {None, "m1"}]
\* ZenbaseFunctionInput: object_id is Optional[int], <<>> for None and <<n>> for n
NoObjectId == <<>>
Items == [inputs : InputValues, object_id : {NoObjectId, <<1>>}]
\* the items check_valid is applied to on its own
CheckItems == [inputs : InputValues, object_id : {NoObjectId, <<1>>, <<2>>}]

\* the concurrent tasks, and a task that is in no call
TaskIds == 1..MaxTasks
NoTask == [op |-> "none", pc |-> "idle"]
NoTasks == [t \in TaskIds |-> NoTask]

SeqsUpTo(S, n) == UNION {[1..k -> S] : k \in 0..n}
\* the BatchFunctionInputList values a caller passes
InputLists == SeqsUpTo(Items, MaxItems)

\* JSON null, where the other values are mappings
Null == [null |-> TRUE]
\* one record of a function-run-logs page: outputs is null or {output: payload}
Records == [object_id : ObjectIds, outputs : {Null, [output |-> "p"]}]
\* the records get_batch_optimizer_run_results_per_page is applied to on its own
PageRecords == [object_id : ObjectIds, outputs : {Null, [output |-> "p"], [output |-> "q"]}]

----------------------------------------------------------------------------
(* helpers.py *)

Min(a, b) == IF a < b THEN a ELSE b
Max(a, b) == IF a > b THEN a ELSE b

\* the pages the server may answer once `held` records have been received: the
\* pages of a run hold at most count records in total
Pages(held) == SeqsUpTo(Records, Min(MaxRecords, remote_count) - held)

\* mutant: the upper limit is dropped
clampNoCeiling(value, min_value, max_value) == Max(min_value, value)

clamp(value, min_value, max_value) == Max(min_value, Min(value, max_value))

\* mutant: a record with null outputs is dropped, its object id is not kept
RECURSIVE PerPageFailedDropped(_)
PerPageFailedDropped(batch_run_results) ==
    IF batch_run_results = <<>>
    THEN [results |-> <<>>, failed_object_ids |-> <<>>]
    ELSE LET result == Head(batch_run_results)
             rest == PerPageFailedDropped(Tail(batch_run_results))
         IN IF result.outputs = Null
            THEN rest
            ELSE [results |-> <<[object_id |-> result.object_id,
                                 outputs |-> result.outputs.output]>> \o rest.results,
                  failed_object_ids |-> rest.failed_object_ids]

RECURSIVE get_batch_optimizer_run_results_per_page(_)
get_batch_optimizer_run_results_per_page(batch_run_results) ==
    IF batch_run_results = <<>>
    THEN [results |-> <<>>, failed_object_ids |-> <<>>]
    ELSE LET result == Head(batch_run_results)
             object_id == result.object_id
             outputs == result.outputs
             rest == get_batch_optimizer_run_results_per_page(Tail(batch_run_results))
         IN IF outputs = Null
            THEN [results |-> rest.results,
                  failed_object_ids |-> <<object_id>> \o rest.failed_object_ids]
            ELSE [results |-> <<[object_id |-> object_id,
                                 outputs |-> outputs.output]>> \o rest.results,
                  failed_object_ids |-> rest.failed_object_ids]

\* list(Counter(ids).keys()): the distinct elements in order of first insertion
RECURSIVE CounterKeys(_)
CounterKeys(ids) ==
    IF ids = <<>> THEN <<>>
    ELSE LET front == CounterKeys(SubSeq(ids, 1, Len(ids) - 1))
             last == ids[Len(ids)]
         IN IF \E i \in 1..Len(front) : front[i] = last
            THEN front
            ELSE Append(front, last)

----------------------------------------------------------------------------
(* get_batch_optimizer_run_results *)

NoCall == [op |-> "none"]
NoOutcome == [kind |-> "none"]
NoLocals == [frame |-> "none"]

Raise(error, message) == [kind |-> "raise", error |-> error, message |-> message]
Return(value) == [kind |-> "return", value |-> value]

\* the two messages get_batch_optimizer_run_results raises with
RequestFailed == "API request failed"
NotCompleted == "Batch run not completed"

\* log entries: a request with the reply it got ("error": it failed in the transport), a sleep
Request(method, endpoint, id, page, reply) ==
    [kind |-> "request", method |-> method, endpoint |-> endpoint, id |-> id,
     page |-> page, reply |-> reply]
StatusRequest(b, reply) == Request("GET", "batch-run/status", b, 0, reply)
PageRequest(b, page, reply) == Request("GET", "function-run-logs", b, page, reply)
SleepEvent(t) == [kind |-> "sleep", t |-> t]

\* what the frame of an operation holds for a local variable not assigned yet
Unassigned == 0
NoResults == [results |-> <<>>, failed_object_ids |-> <<>>]

\* the suspended frame of get_batch_optimizer_run_results
ResultsFrame(status, sleep, acc, count, page) ==
    [frame |-> "results", batch_run_status |-> status, next_sleep_time |-> sleep,
     batch_optimizer_run_results |-> acc, count |-> count, page |-> page]

\* BatchFunctionRunStatus(**response): what the status endpoint answers now
StatusReplies ==
    {[status |-> remote_status, total_runs |-> p[1], completed_runs |-> p[2]] : p \in RunPairs}

\* mutant: the async client stops one page early, as range(2, total_pages) would
PageStopTruncated(v, count) == (count + 9) \div PageSize

\* first page number the for loop does not fetch: range(2, stop)
PageStop(v, count) ==
    IF v = "sync"
    THEN (count + 9) \div PageSize
    ELSE ((count + 9) \div PageSize) + 1

\* the value returned after the page loop
Finalize(v, acc) ==
    IF v = "sync"
    THEN acc
    ELSE [results |-> acc.results, failed_object_ids |-> CounterKeys(acc.failed_object_ids)]

Idle == pc \in {"idle", "done"}

\* the operation ends: its frame is gone
EndWith(o) ==
    /\ pc' = "done"
    /\ locals' = NoLocals
    /\ outcome' = o

CallResults(b, block) ==
    /\ Idle
    /\ call' = [op |-> "get_batch_optimizer_run_results", batch_run_id |-> b,
                block_until_completed |-> block]
    /\ pc' = "status"
    /\ locals' = NoLocals
    /\ log' = <<>>
    /\ outcome' = NoOutcome
    /\ received' = <<>>
    /\ UNCHANGED <<variant, connection, tasks, caches, remote>>

\* the remote run leaves RUNNING
ServerFinish ==
    /\ remote_status = RUNNING
    /\ remote_status' \in {COMPLETED, FAILED}
    /\ UNCHANGED <<variant, connection, tasks, caches, call, pc, locals, log,
                   outcome, remote_count, remote_replies, received>>

\* mutant: a failed request is issued again
RequestFailsRetried(request) ==
    /\ log' = Append(log, request)
    /\ UNCHANGED <<pc, locals, outcome>>

\* a request that fails in the transport: the error propagates out of the operation
RequestFails(request) ==
    /\ log' = Append(log, request)
    /\ EndWith(Raise("ZenbaseAPIError", RequestFailed))

\* the message of the async client for a status >= 400: it ends with the body text
RequestFailedWithBody == "API request failed (status=...): body text"
\* the detail field of a response, and the description the async client puts in
\* its place ("Invalid response from batch-run creation" for the POST)
Detail == "detail of the response"
Generic == "Unknown response format"

\* the answers of the service other than a 2xx JSON mapping with every field: a
\* status >= 400, a 2xx body that is not JSON, a 2xx JSON mapping with the fields
\* `fields` out of `known`
Replies(known) ==
    {[kind |-> "http_error"], [kind |-> "text"]}
        \cup {[kind |-> "json", fields |-> f] : f \in SUBSET known}

Accepted == [kind |-> "accepted"]

\* What becomes of a reply in _make_request(...).json() / _make_async_request and
\* in the field tests of the caller: `checked` are the fields the caller tests
\* with `in` before it raises ZenbaseAPIError, `read` the fields it reads after
\* that, a missing one raising `missing`.
Decode(v, reply, checked, read, missing) ==
    IF reply.kind = "http_error"
    THEN Raise("ZenbaseAPIError", IF v = "sync" THEN RequestFailed ELSE RequestFailedWithBody)
    ELSE IF reply.kind = "text" /\ v = "sync"
    THEN Raise("JSONDecodeError", "response.json()")
    ELSE LET fields == IF reply.kind = "text" THEN {"text"} ELSE reply.fields
         IN IF ~(checked \subseteq fields)
            THEN IF "detail" \in fields THEN Raise("ZenbaseAPIError", Detail)
                 ELSE IF v = "sync" THEN Raise("KeyError", "detail")
                 ELSE Raise("ZenbaseAPIError", Generic)
            ELSE IF ~(read \subseteq fields)
                 THEN Raise(missing, "field")
                 ELSE Accepted

\* a request whose answer the operation does not accept: it ends the operation
AbnormalReply(method, endpoint, id, page, checked, read, missing) ==
    /\ remote_replies = "any"
    /\ \E reply \in Replies(checked \cup read \cup {"detail"}) :
         /\ Decode(variant, reply, checked, read, missing) # Accepted
         /\ log' = Append(log, [kind |-> "request", method |-> method,
                                endpoint |-> endpoint, id |-> id, page |-> page,
                                reply |-> reply.kind, body |-> reply])
         /\ EndWith(Decode(variant, reply, checked, read, missing))

\* self.session of an AsyncZenbaseClient that holds no connection context (None);
\* a context is named by its position in contexts
NoSession == 0

\* aiohttp.ClientSession(...): a connection context is created, open, and
\* self.session refers to it; what self.session referred to before is not closed
SessionCreated ==
    /\ session' = Len(contexts) + 1
    /\ contexts' = Append(contexts, "open")

\* the connection context after a step of an operation: a step that issued a
\* request went through _make_async_request, which creates a context when the
\* client holds none (the blocking client holds one from its construction)
SessionAfter(requested) ==
    IF requested /\ session = NoSession
    THEN SessionCreated
    ELSE UNCHANGED connection

\* mutant: the loop waits for COMPLETED, so it polls on after FAILED
StillRunningUntilCompleted(status) == status.status # COMPLETED

\* mutant: the loop is left on no status
StillRunningAlways(status) == TRUE

\* the test that keeps the polling loop going
StillRunning(status) == status.status = RUNNING

\* mutant: the else branch does not look at the status
AfterStatusUnchecked(status, sleep) ==
    /\ pc' = IF call.block_until_completed /\ status.status = RUNNING THEN "sleep" ELSE "page1"
    /\ locals' = ResultsFrame(status, IF call.block_until_completed THEN sleep ELSE Unassigned,
                              NoResults, Unassigned, Unassigned)
    /\ outcome' = outcome

\* after a status poll: the while test, or the else branch
AfterStatus(status, sleep) ==
    IF call.block_until_completed
    THEN /\ pc' = IF StillRunning(status) THEN "sleep" ELSE "page1"
         /\ locals' = ResultsFrame(status, sleep, NoResults, Unassigned, Unassigned)
         /\ outcome' = outcome
    ELSE IF status.status = RUNNING
         THEN EndWith(Raise("ZenbaseAPIError", NotCompleted))
         ELSE /\ pc' = "page1"
              /\ locals' = ResultsFrame(status, Unassigned, NoResults, Unassigned, Unassigned)
              /\ outcome' = outcome

\* get_batch_optimizer_run_status on an answer without status (lines 162-163 /
\* 233-234) or without a field BatchFunctionRunStatus(**response) requires
StatusRejected(b) ==
    AbnormalReply("GET", "batch-run/status", b, 0, {"status"},
                  {"total_runs", "completed_runs", "failed_runs"}, "ValidationError")

\* results['results'], results['count'] of an answer without them (lines 189-190 /
\* 262-263)
PageRejected(b, page) ==
    AbnormalReply("GET", "function-run-logs", b, page, {}, {"results", "count"}, "KeyError")

\* line 176 / 247: the first status poll
FirstStatus ==
    /\ pc = "status"
    /\ call.op = "get_batch_optimizer_run_results"
    /\ \/ RequestFails(StatusRequest(call.batch_run_id, "error"))
       \/ StatusRejected(call.batch_run_id)
       \/ \E status \in StatusReplies :
            /\ log' = Append(log, StatusRequest(call.batch_run_id, status.status))
            /\ AfterStatus(status, InitialSleep * Scale)
    /\ UNCHANGED <<variant, tasks, caches, call, remote, received>>
    /\ SessionAfter(log' # log)

NumSleeps == Cardinality({i \in 1..Len(log) : log[i].kind = "sleep"})

\* line 180 / 252
Sleep ==
    /\ pc = "sleep"
    /\ NumSleeps < MaxPolls + (IF remote_status = RUNNING THEN 0 ELSE 1)
    /\ log' = Append(log, SleepEvent(locals.next_sleep_time))
    /\ pc' = "poll"
    /\ UNCHANGED <<variant, connection, tasks, caches, call, locals, outcome, remote, received>>

\* lines 182-183 / 254-255
NextSleepTime(status) ==
    LET n_remaining == status.total_runs - status.completed_runs
    IN clamp(n_remaining, MinSleep * Scale, MaxSleep * Scale)

\* lines 181-183 / 253-255, and the while test that follows
Poll ==
    /\ pc = "poll"
    /\ \/ RequestFails(StatusRequest(call.batch_run_id, "error"))
       \/ StatusRejected(call.batch_run_id)
       \/ \E status \in StatusReplies :
            /\ log' = Append(log, StatusRequest(call.batch_run_id, status.status))
            /\ AfterStatus(status, NextSleepTime(status))
    /\ UNCHANGED <<variant, tasks, caches, call, remote, received>>
    /\ SessionAfter(log' # log)

\* batch_optimizer_run_results after the results of one more page are appended
Extend(acc, per_page) ==
    [results |-> acc.results \o per_page.results,
     failed_object_ids |-> acc.failed_object_ids \o per_page.failed_object_ids]

\* after a page has been added: the next iteration of the for loop, or the return
AfterPage(acc, count, page) ==
    IF page < PageStop(variant, count)
    THEN /\ pc' = "pages"
         /\ locals' = [locals EXCEPT !.batch_optimizer_run_results = acc,
                                     !.count = count, !.page = page]
         /\ outcome' = outcome
    ELSE EndWith(Return(Finalize(variant, acc)))

\* lines 188-190 / 261-265
FetchFirstPage ==
    /\ pc = "page1"
    /\ \/ /\ RequestFails(PageRequest(call.batch_run_id, 1, "error"))
          /\ received' = received
       \/ /\ PageRejected(call.batch_run_id, 1)
          /\ received' = received
       \/ \E records \in Pages(0) :
            /\ log' = Append(log, PageRequest(call.batch_run_id, 1, "ok"))
            /\ received' = received \o records
            /\ AfterPage(get_batch_optimizer_run_results_per_page(records), remote_count, 2)
    /\ UNCHANGED <<variant, tasks, caches, call, remote>>
    /\ SessionAfter(log' # log)

\* lines 192-195 / 267-270
FetchNextPage ==
    /\ pc = "pages"
    /\ \/ /\ RequestFails(PageRequest(call.batch_run_id, locals.page, "error"))
          /\ received' = received
       \/ /\ PageRejected(call.batch_run_id, locals.page)
          /\ received' = received
       \/ \E records \in Pages(Len(received)) :
            /\ log' = Append(log, PageRequest(call.batch_run_id, locals.page, "ok"))
            /\ received' = received \o records
            /\ AfterPage(Extend(locals.batch_optimizer_run_results,
                                get_batch_optimizer_run_results_per_page(records)),
                         locals.count, locals.page + 1)
    /\ UNCHANGED <<variant, tasks, caches, call, remote>>
    /\ SessionAfter(log' # log)

----------------------------------------------------------------------------
(* validation.py, models.py *)

\* jsonschema.validate(instance = data, schema = schema) does not raise
matches_schema(schema, data) == data \in schema

Valid == [ok |-> TRUE]
Invalid(reason, object_id) == [ok |-> FALSE, reason |-> reason, object_id |-> object_id]

\* mutant: an item is tested against the schema before its object id is looked up
RECURSIVE CheckValidFromSchemaFirst(_, _, _, _)
CheckValidFromSchemaFirst(items, input_schema, i, object_ids) ==
    IF i > Len(items) THEN Valid
    ELSE LET input_data == items[i]
         IN IF ~matches_schema(input_schema, input_data.inputs)
            THEN Invalid("does not match the schema", input_data.object_id)
            ELSE IF \E k \in 1..Len(object_ids) : object_ids[k] = input_data.object_id
                 THEN Invalid("already exists in the list", input_data.object_id)
                 ELSE CheckValidFromSchemaFirst(items, input_schema, i + 1,
                                                Append(object_ids, input_data.object_id))

\* mutant: an item without object_id is left out of the uniqueness test
RECURSIVE CheckValidFromNoneSkipped(_, _, _, _)
CheckValidFromNoneSkipped(items, input_schema, i, object_ids) ==
    IF i > Len(items) THEN Valid
    ELSE LET input_data == items[i]
         IN IF /\ input_data.object_id # NoObjectId
               /\ \E k \in 1..Len(object_ids) : object_ids[k] = input_data.object_id
            THEN Invalid("already exists in the list", input_data.object_id)
            ELSE IF ~matches_schema(input_schema, input_data.inputs)
                 THEN Invalid("does not match the schema", input_data.object_id)
                 ELSE CheckValidFromNoneSkipped(items, input_schema, i + 1,
                                                Append(object_ids, input_data.object_id))

\* the loop of check_valid from item i on, object_ids being the ids seen so far
RECURSIVE CheckValidFrom(_, _, _, _)
CheckValidFrom(items, input_schema, i, object_ids) ==
    IF i > Len(items) THEN Valid
    ELSE LET input_data == items[i]
         IN IF \E k \in 1..Len(object_ids) : object_ids[k] = input_data.object_id
            THEN Invalid("already exists in the list", input_data.object_id)
            ELSE IF ~matches_schema(input_schema, input_data.inputs)
                 THEN Invalid("does not match the schema", input_data.object_id)
                 ELSE CheckValidFrom(items, input_schema, i + 1,
                                     Append(object_ids, input_data.object_id))

check_valid(items, input_schema) == CheckValidFrom(items, input_schema, 1, <<>>)

\* how a call of check_valid ends: return True, or raise ValueError with a message
\* that names the object id of the item
CheckValidOutcome(checked) ==
    IF checked.ok
    THEN Return(TRUE)
    ELSE [kind |-> "raise", error |-> "ValueError", message |-> checked.reason,
          object_id |-> checked.object_id]

\* BatchFunctionInputList(items).check_valid(input_schema), called on its own
ApplyCheckValid ==
    /\ pc = "idle"
    /\ call.op = "check_valid"
    /\ pc' = "done"
    /\ outcome' = CheckValidOutcome(check_valid(call.items, call.input_schema))
    /\ locals' = [frame |-> "check_valid", items |-> call.items]
    /\ UNCHANGED <<variant, connection, tasks, caches, call, log, remote, received>>

\* get_batch_optimizer_run_results_per_page(batch_run_results), called on its own
ApplyPerPage ==
    /\ pc = "idle"
    /\ call.op = "get_batch_optimizer_run_results_per_page"
    /\ pc' = "done"
    /\ outcome' = Return(get_batch_optimizer_run_results_per_page(call.batch_run_results))
    /\ locals' = [frame |-> "per_page", batch_run_results |-> call.batch_run_results]
    /\ UNCHANGED <<variant, connection, tasks, caches, call, log, remote, received>>

----------------------------------------------------------------------------
(* The identity caches and the operations that use them *)

Put(cache, key, value) ==
    [k \in DOMAIN cache \cup {key} |-> IF k = key THEN value ELSE cache[k]]

OptimizerRequest(o, reply) == Request("GET", "optimizer-configurations", o, 0, reply)
FunctionRequest(f, reply) == Request("GET", "functions", f, 0, reply)
BatchRunPost(o, reply) == Request("POST", "batch-run/", o, 0, reply)
BatchRunRequest(b, reply) == Request("GET", "batch-run", b, 0, reply)

\* a call enters the client
Enter(c, at, frame) ==
    /\ call' = c
    /\ pc' = at
    /\ locals' = frame
    /\ log' = <<>>
    /\ outcome' = NoOutcome
    /\ UNCHANGED <<variant, connection, tasks, caches, remote, received>>

\* the operation goes on at another position
Goto(at, frame) ==
    /\ pc' = at
    /\ locals' = frame
    /\ outcome' = outcome

\* the frame of start_batch_optimizer_run
StartFrame(inputs_list, function_id) ==
    [frame |-> "start", inputs_list |-> inputs_list, function_id |-> function_id]

\* mutant: inputs_list is not validated
ValidateSkipped(inputs_list, input_schema) == Goto("start_post", locals)

\* what start_batch_optimizer_run does once it holds the input schema (line 149 / 209)
Validate(inputs_list, input_schema) ==
    LET checked == check_valid(inputs_list, input_schema)
    IN IF checked.ok
       THEN Goto("start_post", locals)
       ELSE EndWith(CheckValidOutcome(checked))

\* mutant: get_batch_run_function_id does not record the function id it resolved
ReturnFunctionIdNotRecorded(function_id) ==
    CASE pc = "optimizer" ->
            /\ EndWith(Return(function_id))
            /\ UNCHANGED <<batch_run_id_to_function_id_cache, function_config_cache>>
      [] pc = "start" ->
            /\ Goto("start_config", StartFrame(locals.inputs_list, function_id))
            /\ UNCHANGED <<batch_run_id_to_function_id_cache, function_config_cache>>
      [] pc = "batch_run_function" ->
            /\ EndWith(Return(function_id))
            /\ UNCHANGED <<batch_run_id_to_function_id_cache, function_config_cache>>

\* where get_optimizer_function_id returns function_id to: its caller goes on
\* (lines 110, 146-147, 203-205 / 179, 206-207, 285-287)
ReturnFunctionId(function_id) ==
    CASE pc = "optimizer" ->
            /\ EndWith(Return(function_id))
            /\ UNCHANGED <<batch_run_id_to_function_id_cache, function_config_cache>>
      [] pc = "start" ->
            /\ Goto("start_config", StartFrame(locals.inputs_list, function_id))
            /\ UNCHANGED <<batch_run_id_to_function_id_cache, function_config_cache>>
      [] pc = "batch_run_function" ->
            /\ batch_run_id_to_function_id_cache' =
                    Put(batch_run_id_to_function_id_cache, call.batch_run_id, function_id)
            /\ EndWith(Return(function_id))
            /\ UNCHANGED function_config_cache

\* where get_function_config returns function_config to: its caller goes on
\* (lines 129, 147-149 / 200, 207-209)
ReturnFunctionConfig(function_config) ==
    CASE pc = "function" ->
            /\ EndWith(Return(function_config))
            /\ UNCHANGED <<optimizer_function_id_cache, batch_run_id_to_function_id_cache>>
      [] pc = "start_config" ->
            /\ Validate(locals.inputs_list, function_config.input_schema)
            /\ UNCHANGED <<optimizer_function_id_cache, batch_run_id_to_function_id_cache>>

\* mutant: a fetched function id is never stored
ResolveFunctionIdNeverStored(optimizer_id, update_cache) ==
    IF optimizer_id \in DOMAIN optimizer_function_id_cache
    THEN /\ log' = log
         /\ optimizer_function_id_cache' = optimizer_function_id_cache
         /\ ReturnFunctionId(optimizer_function_id_cache[optimizer_id])
    ELSE \/ /\ RequestFails(OptimizerRequest(optimizer_id, "error"))
            /\ UNCHANGED caches
         \/ /\ AbnormalReply("GET", "optimizer-configurations", optimizer_id, 0,
                              {"id"}, {"function"}, "KeyError")
            /\ UNCHANGED caches
         \/ \E function \in FunctionIds :
              /\ log' = Append(log, OptimizerRequest(optimizer_id, "ok"))
              /\ optimizer_function_id_cache' = optimizer_function_id_cache
              /\ ReturnFunctionId(function)

\* get_optimizer_function_id(optimizer_id, update_cache), lines 101-110 / 167-179
ResolveFunctionId(optimizer_id, update_cache) ==
    IF optimizer_id \in DOMAIN optimizer_function_id_cache
    THEN /\ log' = log
         /\ optimizer_function_id_cache' = optimizer_function_id_cache
         /\ ReturnFunctionId(optimizer_function_id_cache[optimizer_id])
    ELSE \/ /\ RequestFails(OptimizerRequest(optimizer_id, "error"))
            /\ UNCHANGED caches
         \/ /\ AbnormalReply("GET", "optimizer-configurations", optimizer_id, 0,
                              {"id"}, {"function"}, "KeyError")
            /\ UNCHANGED caches
         \/ \E function \in FunctionIds :
              /\ log' = Append(log, OptimizerRequest(optimizer_id, "ok"))
              /\ optimizer_function_id_cache' =
                    IF update_cache
                    THEN Put(optimizer_function_id_cache, optimizer_id, function)
                    ELSE optimizer_function_id_cache
              /\ ReturnFunctionId(function)

\* mutant: a fetched configuration is stored whatever update_cache says
ResolveFunctionConfigAlwaysStored(function_id, update_cache) ==
    IF function_id \in DOMAIN function_config_cache
    THEN /\ log' = log
         /\ function_config_cache' = function_config_cache
         /\ ReturnFunctionConfig(function_config_cache[function_id])
    ELSE \/ /\ RequestFails(FunctionRequest(function_id, "error"))
            /\ UNCHANGED caches
         \/ /\ AbnormalReply("GET", "functions", function_id, 0,
                              {"id"}, {"name", "model", "input_schema"}, "KeyError")
            /\ UNCHANGED caches
         \/ \E function_config \in Configs :
              /\ log' = Append(log, FunctionRequest(function_id, "ok"))
              /\ function_config_cache' = Put(function_config_cache, function_id, function_config)
              /\ ReturnFunctionConfig(function_config)

\* get_function_config(function_id, update_cache), lines 112-129 / 181-200
ResolveFunctionConfig(function_id, update_cache) ==
    IF function_id \in DOMAIN function_config_cache
    THEN /\ log' = log
         /\ function_config_cache' = function_config_cache
         /\ ReturnFunctionConfig(function_config_cache[function_id])
    ELSE \/ /\ RequestFails(FunctionRequest(function_id, "error"))
            /\ UNCHANGED caches
         \/ /\ AbnormalReply("GET", "functions", function_id, 0,
                              {"id"}, {"name", "model", "input_schema"}, "KeyError")
            /\ UNCHANGED caches
         \/ \E function_config \in Configs :
              /\ log' = Append(log, FunctionRequest(function_id, "ok"))
              /\ function_config_cache' =
                    IF update_cache
                    THEN Put(function_config_cache, function_id, function_config)
                    ELSE function_config_cache
              /\ ReturnFunctionConfig(function_config)

CallGetOptimizerFunctionId(optimizer_id, update_cache) ==
    /\ Idle
    /\ Enter([op |-> "get_optimizer_function_id", optimizer_id |-> optimizer_id,
              update_cache |-> update_cache],
             "optimizer", NoLocals)

GetOptimizerFunctionId ==
    /\ pc = "optimizer"
    /\ ResolveFunctionId(call.optimizer_id, call.update_cache)
    /\ UNCHANGED <<variant, tasks, call, remote, received>>
    /\ SessionAfter(log' # log)

CallGetFunctionConfig(function_id, update_cache) ==
    /\ Idle
    /\ Enter([op |-> "get_function_config", function_id |-> function_id,
              update_cache |-> update_cache],
             "function", NoLocals)

GetFunctionConfig ==
    /\ pc = "function"
    /\ ResolveFunctionConfig(call.function_id, call.update_cache)
    /\ UNCHANGED <<variant, tasks, call, remote, received>>
    /\ SessionAfter(log' # log)

CallStartBatchOptimizerRun(optimizer_id, inputs_list) ==
    /\ Idle
    /\ Enter([op |-> "start_batch_optimizer_run", optimizer_id |-> optimizer_id],
             "start", StartFrame(inputs_list, Unassigned))

\* line 146 / 206
StartResolveFunctionId ==
    /\ pc = "start"
    /\ ResolveFunctionId(call.optimizer_id, TRUE)
    /\ UNCHANGED <<variant, tasks, call, remote, received>>
    /\ SessionAfter(log' # log)

\* lines 147-149 / 207-209
StartResolveConfig ==
    /\ pc = "start_config"
    /\ ResolveFunctionConfig(locals.function_id, TRUE)
    /\ UNCHANGED <<variant, tasks, call, remote, received>>
    /\ SessionAfter(log' # log)

\* mutant: the optimizer id is recorded in place of the function id
RecordBatchRunOptimizer(id, function_id) ==
    /\ batch_run_id_to_function_id_cache' =
            Put(batch_run_id_to_function_id_cache, id, call.optimizer_id)
    /\ EndWith(Return(id))

\* what start_batch_optimizer_run does with the id of the created batch run
RecordBatchRun(id, function_id) ==
    /\ batch_run_id_to_function_id_cache' =
            Put(batch_run_id_to_function_id_cache, id, function_id)
    /\ EndWith(Return(id))

\* the ids the service may answer the POST with: the id of the batch run it has
\* just created.  The entries of the batch-run cache are about runs that existed
\* before, so a service whose answers are well formed answers none of their ids.
CreatedBatchRunIds ==
    IF remote_replies = "wellformed"
    THEN {id \in BatchRunIds : IntId(id) \notin DOMAIN batch_run_id_to_function_id_cache}
    ELSE BatchRunIds

\* lines 152-157 / 216-228
StartPost ==
    /\ pc = "start_post"
    /\ \/ /\ RequestFails(BatchRunPost(call.optimizer_id, "error"))
          /\ UNCHANGED caches
       \/ /\ AbnormalReply("POST", "batch-run/", call.optimizer_id, 0, {"id"}, {}, "KeyError")
          /\ UNCHANGED caches
       \/ \E id \in CreatedBatchRunIds :
            /\ log' = Append(log, BatchRunPost(call.optimizer_id, "ok"))
            /\ RecordBatchRun(IntId(id), locals.function_id)
            /\ UNCHANGED <<optimizer_function_id_cache, function_config_cache>>
    /\ UNCHANGED <<variant, tasks, call, remote, received>>
    /\ SessionAfter(log' # log)

CallGetBatchRunFunctionId(batch_run_id) ==
    /\ Idle
    /\ Enter([op |-> "get_batch_run_function_id", batch_run_id |-> batch_run_id],
             "batch_run", NoLocals)

NotFound == "not found in local batch run history"

\* an answer of batch-run/b without configuration: the blocking client reads the
\* field (line 202), the async client tests for it first (lines 282-283)
BatchRunRejected(b) ==
    IF variant = "sync"
    THEN AbnormalReply("GET", "batch-run", b, 0, {}, {"configuration"}, "KeyError")
    ELSE AbnormalReply("GET", "batch-run", b, 0, {"configuration"}, {}, "KeyError")

\* lines 199-202, 206-207 / 278-284, 288-289
GetBatchRunFunctionId ==
    /\ pc = "batch_run"
    /\ IF call.batch_run_id \in DOMAIN batch_run_id_to_function_id_cache
       THEN /\ log' = log
            /\ EndWith(Return(batch_run_id_to_function_id_cache[call.batch_run_id]))
       ELSE IF call.batch_run_id.type = "int"
            THEN \/ RequestFails(BatchRunRequest(call.batch_run_id.v, "error"))
                 \/ BatchRunRejected(call.batch_run_id.v)
                 \/ \E configuration \in OptimizerIds :
                      /\ log' = Append(log, BatchRunRequest(call.batch_run_id.v, "ok"))
                      /\ Goto("batch_run_function",
                              [frame |-> "batch_run", optimizer_id |-> configuration])
            ELSE /\ log' = log
                 /\ EndWith(Raise("ZenbaseAPIError", NotFound))
    /\ UNCHANGED <<variant, tasks, caches, call, remote, received>>
    /\ SessionAfter(log' # log)

\* lines 203-205 / 285-287
BatchRunResolveFunctionId ==
    /\ pc = "batch_run_function"
    /\ ResolveFunctionId(locals.optimizer_id, TRUE)
    /\ UNCHANGED <<variant, tasks, call, remote, received>>
    /\ SessionAfter(log' # log)

FunctionPatch(f, reply) == Request("PATCH", "functions", f, 0, reply)

CallGetBatchOptimizerRunStatus(batch_run_id) ==
    /\ Idle
    /\ Enter([op |-> "get_batch_optimizer_run_status", batch_run_id |-> batch_run_id],
             "status", NoLocals)

\* lines 160-164 / 231-235
GetBatchOptimizerRunStatus ==
    /\ pc = "status"
    /\ call.op = "get_batch_optimizer_run_status"
    /\ \/ RequestFails(StatusRequest(call.batch_run_id, "error"))
       \/ StatusRejected(call.batch_run_id)
       \/ \E status \in StatusReplies :
            /\ log' = Append(log, StatusRequest(call.batch_run_id, status.status))
            /\ EndWith(Return(status))
    /\ UNCHANGED <<variant, tasks, caches, call, remote, received>>
    /\ SessionAfter(log' # log)

CallUpdateFunctionConfig(function_id, function_config) ==
    /\ Idle
    /\ call' = [op |-> "update_function_config", function_id |-> function_id,
                function_config |-> function_config]
    /\ pc' = "update"
    /\ locals' = NoLocals
    /\ log' = <<>>
    /\ outcome' = NoOutcome
    /\ received' = <<>>
    /\ UNCHANGED <<variant, connection, tasks, caches, remote>>

\* mutant: the fields the caller set are kept from the request, the rest taken
\* from the response
FunctionConfigMergedWithRequest(response) ==
    [name |-> IF call.function_config.name # None
              THEN call.function_config.name ELSE response.name,
     model |-> IF call.function_config.model # None
               THEN call.function_config.model ELSE response.model,
     input_schema |-> response.input_schema]

\* ZenbaseFunctionConfig(**response): the fields of the model are taken from the
\* response, its other fields (id) are ignored
FunctionConfigOf(response) ==
    [name |-> response.name, model |-> response.model,
     input_schema |-> response.input_schema]

\* lines 223-228 / 295-305
UpdateFunctionConfig ==
    /\ pc = "update"
    /\ \/ /\ RequestFails(FunctionPatch(call.function_id, "error"))
          /\ received' = received
          /\ UNCHANGED caches
       \/ /\ AbnormalReply("PATCH", "functions", call.function_id, 0, {"id"}, {}, "KeyError")
          /\ received' = received
          /\ UNCHANGED caches
       \/ \E response \in PatchResponses(call.function_id) :
            /\ log' = Append(log, FunctionPatch(call.function_id, "ok"))
            /\ received' = <<response>>
            /\ function_config_cache' =
                    Put(function_config_cache, call.function_id, FunctionConfigOf(response))
            /\ EndWith(Return(function_config_cache'[call.function_id]))
            /\ UNCHANGED <<optimizer_function_id_cache, batch_run_id_to_function_id_cache>>
    /\ UNCHANGED <<variant, tasks, call, remote>>
    /\ SessionAfter(log' # log)

BatchRunDelete(b, reply) == Request("DELETE", "batch-run", b, 0, reply)

CallDeleteBatchOptimizerRun(batch_run_id) ==
    /\ Idle
    /\ Enter([op |-> "delete_batch_optimizer_run", batch_run_id |-> batch_run_id],
             "delete", NoLocals)

\* mutant: the entry of the deleted batch run is evicted from the batch-run cache
CachesAfterDeleteEvicted(batch_run_id) ==
    /\ batch_run_id_to_function_id_cache' =
            [k \in DOMAIN batch_run_id_to_function_id_cache \ {IntId(batch_run_id)}
                |-> batch_run_id_to_function_id_cache[k]]
    /\ UNCHANGED <<optimizer_function_id_cache, function_config_cache>>

\* the caches after the DELETE is answered: the code has no statement on them
CachesAfterDelete(batch_run_id) == UNCHANGED caches

\* what delete_batch_optimizer_run returns: nothing (None) in the blocking client,
\* True in the async client
DeleteValue(v) == IF v = "sync" THEN Null ELSE TRUE

\* line 168 / 242-244: the body of the answer is not read, so the only answer
\* that is not accepted is a status >= 400
DeleteBatchOptimizerRun ==
    /\ pc = "delete"
    /\ \/ /\ RequestFails(BatchRunDelete(call.batch_run_id, "error"))
          /\ UNCHANGED caches
       \/ /\ remote_replies = "any"
          /\ log' = Append(log, [kind |-> "request", method |-> "DELETE",
                                 endpoint |-> "batch-run", id |-> call.batch_run_id,
                                 page |-> 0, reply |-> "http_error",
                                 body |-> [kind |-> "http_error"]])
          /\ EndWith(Decode(variant, [kind |-> "http_error"], {}, {}, "KeyError"))
          /\ UNCHANGED caches
       \/ /\ log' = Append(log, BatchRunDelete(call.batch_run_id, "ok"))
          /\ EndWith(Return(DeleteValue(variant)))
          /\ CachesAfterDelete(call.batch_run_id)
    /\ UNCHANGED <<variant, tasks, call, remote, received>>
    /\ SessionAfter(log' # log)

----------------------------------------------------------------------------
(* The AsyncZenbaseClient called by concurrent tasks.  A task runs from its call
   to the await of its request without interruption, and from the answer of the
   request to its return: the event loop switches tasks at an await only. *)

\* the error aiohttp raises for a request on a closed ClientSession: it is no
\* aiohttp.ClientError, so line 164 does not catch it
SessionClosed == "Session is closed"

LookupOps == {"get_optimizer_function_id", "get_function_config"}

\* the call of a task: its coroutine is created and has not run yet
TaskCall(op, key, update_cache) ==
    [op |-> op, key |-> key, update_cache |-> update_cache, pc |-> "called",
     outcome |-> NoOutcome]

Spawn(t, op, key, update_cache) ==
    /\ variant = "async"
    /\ tasks[t] = NoTask
    /\ tasks' = [tasks EXCEPT ![t] = TaskCall(op, key, update_cache)]
    /\ UNCHANGED <<variant, connection, caches, call, pc, locals, log, outcome,
                   remote, received>>

TaskEnds(t, o) == tasks' = [tasks EXCEPT ![t].pc = "done", ![t].outcome = o]
TaskAwaits(t) == tasks' = [tasks EXCEPT ![t].pc = "await"]

\* lines 92-97 and 141: _make_async_request up to the await of the answer
SendRequest(t) ==
    IF session = NoSession
    THEN SessionCreated /\ TaskAwaits(t)
    ELSE IF contexts[session] = "closed"
         THEN TaskEnds(t, Raise("RuntimeError", SessionClosed)) /\ UNCHANGED connection
         ELSE TaskAwaits(t) /\ UNCHANGED connection

\* the cache an operation looks its key up in
TaskCache(op) ==
    IF op = "get_optimizer_function_id"
    THEN optimizer_function_id_cache
    ELSE function_config_cache

\* lines 168-171, 182-185, 295: the call up to its await
AsyncStart(t) ==
    /\ tasks[t].pc = "called"
    /\ IF tasks[t].op \in LookupOps /\ tasks[t].key \in DOMAIN TaskCache(tasks[t].op)
       THEN /\ TaskEnds(t, Return(TaskCache(tasks[t].op)[tasks[t].key]))
            /\ UNCHANGED connection
       ELSE SendRequest(t)
    /\ UNCHANGED <<variant, caches, call, pc, locals, log, outcome, remote, received>>

\* the answers the service has given, in order, each with the task it went to
FunctionAnswer(t, o, function) ==
    [kind |-> "answer", task |-> t, method |-> "GET",
     endpoint |-> "optimizer-configurations", id |-> o, function |-> function]
ConfigAnswer(t, method, f, response) ==
    [kind |-> "answer", task |-> t, method |-> method, endpoint |-> "functions",
     id |-> f, config |-> response]

\* mutant: the cache is replaced by the one entry
StoreFetchedAlone(cache, key, value, update_cache) ==
    IF update_cache THEN [k \in {key} |-> value] ELSE cache

\* lines 176-177, 197-198: the fetched value is stored when update_cache is set
StoreFetched(cache, key, value, update_cache) ==
    IF update_cache THEN Put(cache, key, value) ELSE cache

\* lines 172-179, 186-200, 300-305: the call from the answer of its request on
AsyncResume(t) ==
    /\ tasks[t].pc = "await"
    /\ LET op == tasks[t].op
           key == tasks[t].key
       IN \/ /\ TaskEnds(t, Raise("ZenbaseAPIError", RequestFailed))
             /\ UNCHANGED <<caches, log>>
          \/ /\ op = "get_optimizer_function_id"
             /\ \E function \in FunctionIds :
                  /\ log' = Append(log, FunctionAnswer(t, key, function))
                  /\ optimizer_function_id_cache' =
                        StoreFetched(optimizer_function_id_cache, key, function,
                                     tasks[t].update_cache)
                  /\ TaskEnds(t, Return(function))
             /\ UNCHANGED <<batch_run_id_to_function_id_cache, function_config_cache>>
          \/ /\ op = "get_function_config"
             /\ \E function_config \in Configs :
                  /\ log' = Append(log, ConfigAnswer(t, "GET", key, function_config))
                  /\ function_config_cache' =
                        StoreFetched(function_config_cache, key, function_config,
                                     tasks[t].update_cache)
                  /\ TaskEnds(t, Return(function_config))
             /\ UNCHANGED <<optimizer_function_id_cache, batch_run_id_to_function_id_cache>>
          \/ /\ op = "update_function_config"
             /\ \E response \in PatchResponses(key) :
                  /\ log' = Append(log, ConfigAnswer(t, "PATCH", key, FunctionConfigOf(response)))
                  /\ function_config_cache' =
                        Put(function_config_cache, key, FunctionConfigOf(response))
                  /\ TaskEnds(t, Return(FunctionConfigOf(response)))
             /\ UNCHANGED <<optimizer_function_id_cache, batch_run_id_to_function_id_cache>>
    /\ UNCHANGED <<variant, connection, call, pc, locals, outcome, remote, received>>

\* __aenter__, lines 53-59
aenter ==
    /\ variant = "async"
    /\ Len(contexts) < MaxContexts
    /\ SessionCreated
    /\ UNCHANGED <<variant, tasks, caches, call, pc, locals, log, outcome, remote, received>>

\* __aexit__(exc_type, exc_val, exc_tb), lines 61-64: the arguments are not looked at
aexit(exc_type) ==
    /\ variant = "async"
    /\ IF session # NoSession
       THEN /\ contexts' = [contexts EXCEPT ![session] = "closed"]
            /\ session' = session
       ELSE UNCHANGED connection
    /\ UNCHANGED <<variant, tasks, caches, call, pc, locals, log, outcome, remote, received>>

----------------------------------------------------------------------------

\* the connection context a client holds once constructed: the blocking client
\* creates its requests.Session in __init__, the async client holds None
InitialSession(v) == IF v = "sync" THEN 1 ELSE NoSession
InitialContexts(v) == IF v = "sync" THEN <<"open">> ELSE <<>>

Init ==
    /\ variant \in Variants
    /\ optimizer_function_id_cache = <<>>
    /\ batch_run_id_to_function_id_cache = <<>>
    /\ function_config_cache = <<>>
    /\ call = NoCall
    /\ pc = "idle"
    /\ locals = NoLocals
    /\ log = <<>>
    /\ outcome = NoOutcome
    /\ remote_status = COMPLETED
    /\ remote_count = 0
    /\ remote_replies = "wellformed"
    /\ received = <<>>
    /\ session = InitialSession(variant)
    /\ contexts = InitialContexts(variant)
    /\ tasks = NoTasks

\* the remote batch run polled: in any state, with any number of run logs
InitResults ==
    /\ variant \in Variants
    /\ optimizer_function_id_cache = <<>>
    /\ batch_run_id_to_function_id_cache = <<>>
    /\ function_config_cache = <<>>
    /\ call = NoCall
    /\ pc = "idle"
    /\ locals = NoLocals
    /\ log = <<>>
    /\ outcome = NoOutcome
    /\ remote_status \in StatusEnum
    /\ remote_count \in Counts
    /\ remote_replies = "wellformed"
    /\ received = <<>>
    /\ session = InitialSession(variant)
    /\ contexts = InitialContexts(variant)
    /\ tasks = NoTasks

\* a remote service that may answer anything
InitProtocol ==
    /\ variant \in Variants
    /\ optimizer_function_id_cache = <<>>
    /\ batch_run_id_to_function_id_cache = <<>>
    /\ function_config_cache = <<>>
    /\ call = NoCall
    /\ pc = "idle"
    /\ locals = NoLocals
    /\ log = <<>>
    /\ outcome = NoOutcome
    /\ remote_status = COMPLETED
    /\ remote_count = 0
    /\ remote_replies = "any"
    /\ received = <<>>
    /\ session = InitialSession(variant)
    /\ contexts = InitialContexts(variant)
    /\ tasks = NoTasks

\* the arguments the helper functions are applied to
InitHelpers ==
    /\ variant = "sync"
    /\ optimizer_function_id_cache = <<>>
    /\ batch_run_id_to_function_id_cache = <<>>
    /\ function_config_cache = <<>>
    /\ call \in {[op |-> "check_valid", items |-> l, input_schema |-> sc] :
                    l \in SeqsUpTo(CheckItems, MaxItems), sc \in Schemas}
               \cup {[op |-> "get_batch_optimizer_run_results_per_page",
                      batch_run_results |-> r] : r \in SeqsUpTo(PageRecords, MaxRecords)}
    /\ pc = "idle"
    /\ locals = NoLocals
    /\ log = <<>>
    /\ outcome = NoOutcome
    /\ remote_status = COMPLETED
    /\ remote_count = 0
    /\ remote_replies = "wellformed"
    /\ received = <<>>
    /\ session = InitialSession(variant)
    /\ contexts = InitialContexts(variant)
    /\ tasks = NoTasks

\* an AsyncZenbaseClient just constructed
InitAsync ==
    /\ variant = "async"
    /\ optimizer_function_id_cache = <<>>
    /\ batch_run_id_to_function_id_cache = <<>>
    /\ function_config_cache = <<>>
    /\ call = NoCall
    /\ pc = "idle"
    /\ locals = NoLocals
    /\ log = <<>>
    /\ outcome = NoOutcome
    /\ remote_status = COMPLETED
    /\ remote_count = 0
    /\ remote_replies = "wellformed"
    /\ received = <<>>
    /\ session = NoSession
    /\ contexts = <<>>
    /\ tasks = NoTasks

\* the calls of the tasks
TaskCalls ==
    \/ \E t \in TaskIds, o \in OptimizerIds, u \in BOOLEAN :
            Spawn(t, "get_optimizer_function_id", o, u)
    \/ \E t \in TaskIds, f \in FunctionIds, u \in BOOLEAN :
            Spawn(t, "get_function_config", f, u)
    \/ \E t \in TaskIds, f \in FunctionIds :
            Spawn(t, "update_function_config", f, TRUE)

NextAsync ==
    \/ TaskCalls
    \/ \E t \in TaskIds : AsyncStart(t)
    \/ \E t \in TaskIds : AsyncResume(t)
    \/ aenter
    \/ \E exc_type \in {None, "Exception"} : aexit(exc_type)

SpecAsync == InitAsync /\ [][NextAsync]_vars

\* the tasks call the operations on a client used without a scope
NextRace ==
    \/ TaskCalls
    \/ \E t \in TaskIds : AsyncStart(t)
    \/ \E t \in TaskIds : AsyncResume(t)

SpecRace == InitAsync /\ [][NextRace]_vars

NextHelpers == ApplyCheckValid \/ ApplyPerPage

ClientResults ==
    \/ FirstStatus
    \/ Sleep
    \/ Poll
    \/ FetchFirstPage
    \/ FetchNextPage

NextResults ==
    \/ \E b \in BatchRunIds, block \in BOOLEAN : CallResults(b, block)
    \/ ServerFinish
    \/ ClientResults

ClientCalls ==
    \/ \E o \in OptimizerIds, u \in BOOLEAN : CallGetOptimizerFunctionId(o, u)
    \/ \E f \in FunctionIds, u \in BOOLEAN : CallGetFunctionConfig(f, u)
    \/ \E o \in OptimizerIds, l \in InputLists : CallStartBatchOptimizerRun(o, l)
    \/ \E b \in BatchRunKeys : CallGetBatchRunFunctionId(b)

ClientSteps ==
    \/ GetOptimizerFunctionId
    \/ GetFunctionConfig
    \/ StartResolveFunctionId
    \/ StartResolveConfig
    \/ StartPost
    \/ GetBatchRunFunctionId
    \/ BatchRunResolveFunctionId

Next == ClientCalls \/ ClientSteps

\* the operations on function configurations
NextConfig ==
    \/ \E f \in FunctionIds, u \in BOOLEAN : CallGetFunctionConfig(f, u)
    \/ \E f \in FunctionIds, c \in PartialConfigs : CallUpdateFunctionConfig(f, c)
    \/ GetFunctionConfig
    \/ UpdateFunctionConfig

Spec == Init /\ [][Next]_vars

SpecResults == InitResults /\ [][NextResults]_vars

SpecConfig == Init /\ [][NextConfig]_vars

\* every operation that decodes an answer, for one optimizer, batch run and function
ProtocolCalls ==
    \/ CallGetOptimizerFunctionId(1, TRUE)
    \/ CallGetFunctionConfig(1, TRUE)
    \/ \E l \in InputLists : CallStartBatchOptimizerRun(1, l)
    \/ CallGetBatchRunFunctionId(IntId(1))
    \/ CallGetBatchOptimizerRunStatus(1)
    \/ \E c \in PartialConfigs : CallUpdateFunctionConfig(1, c)
    \/ CallDeleteBatchOptimizerRun(1)

NextProtocol ==
    \/ ProtocolCalls
    \/ ClientSteps
    \/ GetBatchOptimizerRunStatus
    \/ UpdateFunctionConfig
    \/ DeleteBatchOptimizerRun

SpecProtocol == InitProtocol /\ [][NextProtocol]_vars

\* every operation that reads or writes a cache, and the delete
NextCaches ==
    \/ \E o \in OptimizerIds, u \in BOOLEAN : CallGetOptimizerFunctionId(o, u)
    \/ \E f \in FunctionIds, u \in BOOLEAN : CallGetFunctionConfig(f, u)
    \/ \E o \in OptimizerIds, l \in SeqsUpTo(Items, 1) : CallStartBatchOptimizerRun(o, l)
    \/ \E b \in BatchRunKeys : CallGetBatchRunFunctionId(b)
    \/ ClientSteps
    \/ \E f \in FunctionIds, c \in PartialConfigs : CallUpdateFunctionConfig(f, c)
    \/ UpdateFunctionConfig
    \/ \E b \in BatchRunIds : CallDeleteBatchOptimizerRun(b)
    \/ DeleteBatchOptimizerRun

SpecCaches == Init /\ [][NextCaches]_vars

SpecHelpers == InitHelpers /\ [][NextHelpers]_vars

\* the client keeps running and the remote run ends
FairResults == SpecResults /\ WF_vars(ClientResults) /\ WF_vars(ServerFinish)

----------------------------------------------------------------------------
(* Properties of get_batch_optimizer_run_results, checked under SpecResults *)

InResults == call.op = "get_batch_optimizer_run_results"
Returned == InResults /\ pc = "done" /\ outcome.kind = "return"
Blocking == InResults /\ call.block_until_completed
NonBlocking == InResults /\ ~call.block_until_completed

IsRequest(e, endpoint) == e.kind = "request" /\ e.endpoint = endpoint
IsStatus(e) == IsRequest(e, "batch-run/status")
IsPage(e) == IsRequest(e, "function-run-logs")
IsSleep(e) == e.kind = "sleep"

\* the page numbers requested so far, in request order
PagesRequested ==
    LET reqs == SelectSeq(log, IsPage)
    IN [i \in 1..Len(reqs) |-> reqs[i].page]

\* ceil(count / 10): the least n with 10 n >= count
CeilPages(count) == CHOOSE n \in 0..count : n * 10 >= count /\ (n = 0 \/ (n - 1) * 10 < count)

OneTo(n) == [i \in 1..n |-> i]

\* the successes among records, in record order
Successes(records) ==
    LET ok == SelectSeq(records, LAMBDA r : r.outputs # Null)
    IN [i \in 1..Len(ok) |-> [object_id |-> ok[i].object_id, outputs |-> ok[i].outputs.output]]

\* the object ids of the records with null outputs, in record order
FailedIds(records) ==
    LET bad == SelectSeq(records, LAMBDA r : r.outputs = Null)
    IN [i \in 1..Len(bad) |-> bad[i].object_id]

\* ids with every later occurrence of an element removed
FirstSeen(ids) ==
    LET keep == {i \in 1..Len(ids) : \A j \in 1..(i - 1) : ids[j] # ids[i]}
        Rank(i) == Cardinality({j \in keep : j <= i})
    IN [k \in 1..Cardinality(keep) |-> ids[CHOOSE i \in keep : Rank(i) = k]]

AllRequestsForThisRun ==
    \A i \in 1..Len(log) : log[i].kind = "request" => log[i].id = call.batch_run_id

\* C1: the blocking client, when it returns, has requested exactly the pages
\* 1..ceil(count/10) of this run, in increasing order, and returns the successes
\* of the pages in page order, then within-page order (stated for count >= 1,
\* where page 1, which carries count, is among the pages the claim names).
C1_SyncPagination ==
    (variant = "sync" /\ Returned /\ remote_count >= 1) =>
        /\ PagesRequested = OneTo(CeilPages(remote_count))
        /\ AllRequestsForThisRun
        /\ outcome.value.results = Successes(received)

\* C2 as stated: the async client, when it returns, has requested exactly the
\* pages 1..ceil(count/10) and returns the successes in page order.
C2_AsyncPaginationAsStated ==
    (variant = "async" /\ Returned) =>
        /\ PagesRequested = OneTo(CeilPages(remote_count))
        /\ AllRequestsForThisRun
        /\ outcome.value.results = Successes(received)

\* C2 amended: the async client, when it returns, has requested exactly the
\* pages 1..max(1, ceil(count/10)) of this run, each once and in increasing order
\* (page 1 is requested even when count is 0), and returns the successes of the
\* pages in page order, then within-page order.
C2_AsyncPagination ==
    (variant = "async" /\ Returned) =>
        /\ PagesRequested = OneTo(Max(1, CeilPages(remote_count)))
        /\ AllRequestsForThisRun
        /\ outcome.value.results = Successes(received)

C2_Witness ==
    /\ variant = "async" /\ Returned
    /\ remote_count = 25
    /\ PagesRequested = <<1, 2, 3>>
    /\ Len(outcome.value.results) = 2
    /\ outcome.value.results[1].object_id # outcome.value.results[2].object_id

\* C3: in both clients the returned failed_object_ids holds every object id whose
\* outputs were null on a fetched page exactly once, in order of first appearance.
C3_FailedIdsDeduplicated ==
    Returned => outcome.value.failed_object_ids = FirstSeen(FailedIds(received))

\* C4: a call with block_until_completed = false never sleeps and polls the status
\* once; when that poll answers RUNNING the call has ended at once with the
\* "not completed" error, having issued that one status GET and nothing else.
C4_NonBlockingRunningFails ==
    NonBlocking =>
        /\ \A i \in 1..Len(log) : ~IsSleep(log[i]) /\ (IsStatus(log[i]) => i = 1)
        /\ (Len(log) >= 1 /\ log[1].reply = RUNNING) =>
                /\ log = <<StatusRequest(call.batch_run_id, RUNNING)>>
                /\ pc = "done"
                /\ outcome = Raise("ZenbaseAPIError", NotCompleted)
        /\ (outcome.kind = "raise" /\ outcome.message = NotCompleted) =>
                log = <<StatusRequest(call.batch_run_id, RUNNING)>>

C4_Witness ==
    /\ NonBlocking /\ pc = "done"
    /\ outcome = Raise("ZenbaseAPIError", NotCompleted)
    /\ remote_status = RUNNING

\* C5: with block_until_completed = true the log of a call is one status GET, then
\* (sleep, status GET) for as long as the status answered is RUNNING, then page
\* requests only: every page request comes after a status answer other than RUNNING,
\* a RUNNING answer is followed by one sleep and then one status GET, and the first
\* answer other than RUNNING is followed by the request of page 1 and by no status
\* GET or sleep.
C5_PollThenFetch ==
    Blocking =>
        /\ Len(log) >= 1 => IsStatus(log[1])
        /\ \A i \in 1..Len(log) :
            /\ IsPage(log[i]) =>
                    \E j \in 1..(i - 1) : IsStatus(log[j]) /\ log[j].reply \in {COMPLETED, FAILED}
            /\ IsSleep(log[i]) =>
                    i > 1 /\ IsStatus(log[i - 1]) /\ log[i - 1].reply = RUNNING
            /\ (IsStatus(log[i]) /\ log[i].reply = RUNNING) =>
                    /\ i < Len(log) => IsSleep(log[i + 1])
                    /\ i + 1 < Len(log) => IsStatus(log[i + 2])
                    /\ i = Len(log) => pc = "sleep"
            /\ (IsStatus(log[i]) /\ log[i].reply \in {COMPLETED, FAILED}) =>
                    /\ \A j \in (i + 1)..Len(log) : IsPage(log[j])
                    /\ i < Len(log) => log[i + 1].page = 1
                    /\ i = Len(log) => pc = "page1"

C5_Witness ==
    /\ Blocking
    /\ Len(log) >= 6
    /\ log[3].reply = RUNNING
    /\ log[5].reply = FAILED
    /\ IsPage(log[6])

\* clamp(d / 2, 5, 30) in half seconds, d the remaining count
ClampedHalfSeconds(d) == IF d < 10 THEN 10 ELSE IF d > 60 THEN 60 ELSE d

\* C6: the first sleep of a blocking wait is 10 s, every later sleep is
\* clamp((total_runs - completed_runs) / 2, 5, 30) of the latest status answer, and
\* every sleep lies in [5, 30] (durations in half seconds).
C6_AdaptiveBackoff ==
    Blocking =>
        /\ \A i \in 1..Len(log) : IsSleep(log[i]) => log[i].t >= 10 /\ log[i].t <= 60
        /\ \A i \in 1..Len(log) : (IsSleep(log[i]) /\ i = 2) => log[i].t = 20
        /\ pc = "poll" =>
            LET latest == locals.batch_run_status
                slept == log[Len(log)].t
            IN /\ IsSleep(log[Len(log)])
               /\ slept = IF NumSleeps = 1 THEN 20
                          ELSE ClampedHalfSeconds(latest.total_runs - latest.completed_runs)
               /\ (NumSleeps > 1 /\ latest.total_runs = 100 /\ latest.completed_runs = 80)
                      => slept = 20
               /\ (NumSleeps > 1 /\ latest.total_runs = 100 /\ latest.completed_runs = 0)
                      => slept = 60
               /\ (NumSleeps > 1 /\ latest.total_runs = 100 /\ latest.completed_runs = 99)
                      => slept = 10
               /\ (NumSleeps > 1 /\ latest.completed_runs > latest.total_runs)
                      => slept = 10

C6_Witness ==
    /\ Blocking /\ pc = "poll"
    /\ NumSleeps = 2
    /\ locals.batch_run_status.total_runs = 100
    /\ locals.batch_run_status.completed_runs = 0
    /\ log[Len(log)] = SleepEvent(60)

\* C7: a call with block_until_completed = true ends: it returns the results, unless
\* one of its requests failed in the transport (checked under FairResults).
C7_BlockingCallReturns ==
    (InResults /\ pc = "status" /\ call.block_until_completed)
        ~> (/\ pc = "done"
            /\ \/ outcome.kind = "return"
               \/ \E i \in 1..Len(log) : log[i].kind = "request" /\ log[i].reply = "error")

C7_Witness ==
    /\ Returned /\ call.block_until_completed
    /\ NumSleeps = 2
    /\ Len(PagesRequested) >= 2
    /\ \A i \in 1..Len(log) : log[i].kind = "request" => log[i].reply # "error"

\* C8: a request that fails in the transport is the last thing the call does: it is
\* the last entry of the log, the call has ended, and its outcome is the error, with
\* no results.
C8_FailurePropagates ==
    InResults =>
        \A i \in 1..Len(log) :
            (log[i].kind = "request" /\ log[i].reply = "error") =>
                /\ i = Len(log)
                /\ pc = "done"
                /\ outcome = Raise("ZenbaseAPIError", RequestFailed)
                /\ locals = NoLocals

C8_Witness ==
    /\ InResults /\ pc = "done"
    /\ Len(log) >= 3
    /\ log[Len(log)] = PageRequest(call.batch_run_id, 3, "error")
    /\ Len(received) >= 2

----------------------------------------------------------------------------
(* Properties of start_batch_optimizer_run and get_batch_run_function_id, checked
   under Spec *)

InStart == call.op = "start_batch_optimizer_run"
StartReturned == InStart /\ pc = "done" /\ outcome.kind = "return"

\* C9: when start_batch_optimizer_run has returned batch run id b, the batch-run
\* cache maps b to the function id resolved for the optimizer; and a call of
\* get_batch_run_function_id for a cached id ends in one step, returning the cached
\* function id, with no request and no change of a cache.
C9_StartRecordsBatchRun ==
    /\ [](StartReturned =>
            /\ outcome.value \in DOMAIN batch_run_id_to_function_id_cache
            /\ call.optimizer_id \in DOMAIN optimizer_function_id_cache
            /\ batch_run_id_to_function_id_cache[outcome.value]
                    = optimizer_function_id_cache[call.optimizer_id])
    /\ [][(/\ pc = "batch_run"
           /\ call.batch_run_id \in DOMAIN batch_run_id_to_function_id_cache)
            => /\ pc' = "done"
               /\ outcome' = Return(batch_run_id_to_function_id_cache[call.batch_run_id])
               /\ log' = <<>>
               /\ UNCHANGED caches]_vars

C9_Witness ==
    /\ StartReturned
    /\ call.optimizer_id = 1
    /\ outcome.value = IntId(2)
    /\ batch_run_id_to_function_id_cache[IntId(2)] = 2
    /\ IntId(1) \in DOMAIN batch_run_id_to_function_id_cache
    /\ batch_run_id_to_function_id_cache[IntId(1)] = 1

\* position of a request of start_batch_optimizer_run in the order of its steps
StartStep(e) ==
    IF e.endpoint = "optimizer-configurations" THEN 1
    ELSE IF e.endpoint = "functions" THEN 2
    ELSE IF e.endpoint = "batch-run/" THEN 3
    ELSE 0

\* the object ids are pairwise distinct and every inputs mapping conforms
IsValidList(items, schema) ==
    /\ \A i, j \in 1..Len(items) : i # j => items[i].object_id # items[j].object_id
    /\ \A i \in 1..Len(items) : items[i].inputs \in schema

HasPost == \E i \in 1..Len(log) : log[i].endpoint = "batch-run/"

\* C10: start_batch_optimizer_run issues its requests in the order optimizer
\* configuration, function, POST batch-run/; the POST is sent only with the function
\* id and the input schema resolved and inputs_list valid for that schema; when
\* inputs_list is not valid the call raises without a POST; and the batch-run cache
\* changes only as the POST is answered.
C10_ValidateBeforePost ==
    /\ [](InStart =>
            /\ \A i \in 1..Len(log) : StartStep(log[i]) > 0
            /\ \A i, j \in 1..Len(log) : i < j => StartStep(log[i]) < StartStep(log[j])
            /\ HasPost => pc = "done"
            /\ pc = "start_post" =>
                /\ call.optimizer_id \in DOMAIN optimizer_function_id_cache
                /\ locals.function_id = optimizer_function_id_cache[call.optimizer_id]
                /\ locals.function_id \in DOMAIN function_config_cache
                /\ IsValidList(locals.inputs_list,
                               function_config_cache[locals.function_id].input_schema)
            /\ (pc = "done" /\ outcome.kind = "raise" /\ outcome.error = "ValueError")
                    => ~HasPost)
    /\ [][(/\ pc = "start_config" /\ pc' # pc
           /\ ~(outcome'.kind = "raise" /\ outcome'.message = RequestFailed)) =>
            IF IsValidList(locals.inputs_list,
                           function_config_cache'[locals.function_id].input_schema)
            THEN pc' = "start_post"
            ELSE /\ pc' = "done"
                 /\ outcome'.kind = "raise" /\ outcome'.error = "ValueError"
                 /\ ~HasPost'
                 /\ UNCHANGED batch_run_id_to_function_id_cache]_vars
    /\ [][(InStart /\ InStart'
           /\ batch_run_id_to_function_id_cache' # batch_run_id_to_function_id_cache)
            => /\ pc = "start_post"
               /\ log' = Append(log, BatchRunPost(call.optimizer_id, "ok"))
               /\ outcome'.kind = "return"]_vars

C10_Witness ==
    /\ InStart /\ pc = "done"
    /\ outcome.kind = "raise" /\ outcome.error = "ValueError"
    /\ outcome.message = "already exists in the list"
    /\ log = <<OptimizerRequest(call.optimizer_id, "ok"),
               FunctionRequest(optimizer_function_id_cache[call.optimizer_id], "ok")>>

----------------------------------------------------------------------------
(* Properties of the identity caches, checked under Spec *)

InGetOptimizer == call.op = "get_optimizer_function_id"
InGetConfig == call.op = "get_function_config"

\* the call in progress, a lookup, has returned
LookupReturned == (InGetOptimizer \/ InGetConfig) /\ pc = "done" /\ outcome.kind = "return"

\* the cache a lookup reads, and the key it looks up
LookupCache == IF InGetOptimizer THEN optimizer_function_id_cache ELSE function_config_cache
LookupKey == IF InGetOptimizer THEN call.optimizer_id ELSE call.function_id
AtLookup == (InGetOptimizer /\ pc = "optimizer") \/ (InGetConfig /\ pc = "function")

\* the step of a lookup answered from the cache: no request, the cached value
\* returned, no cache changed
ServedFromCache ==
    /\ pc' = "done"
    /\ log' = <<>>
    /\ outcome' = Return(LookupCache[LookupKey])
    /\ UNCHANGED caches

\* C11: of two successive calls of get_optimizer_function_id (get_function_config)
\* for one key with update_cache = true only the first fetches: when the first has
\* returned v it has issued at most one request and the cache holds key -> v; the
\* second call enters with the caches as the first left them; and its one step
\* issues no request and returns the cached v.
C11_SecondCallFromCache ==
    /\ []((LookupReturned /\ call.update_cache) =>
            /\ Len(log) <= 1
            /\ LookupKey \in DOMAIN LookupCache
            /\ LookupCache[LookupKey] = outcome.value)
    /\ [][(LookupReturned /\ call.update_cache /\ call' = call /\ pc' # pc) =>
            /\ AtLookup'
            /\ log' = <<>>
            /\ UNCHANGED caches]_vars
    /\ [][(AtLookup /\ call.update_cache /\ LookupKey \in DOMAIN LookupCache)
            => ServedFromCache]_vars

C11_Witness ==
    /\ InGetConfig /\ pc = "done" /\ call.update_cache
    /\ log = <<>>
    /\ outcome = Return(function_config_cache[call.function_id])
    /\ optimizer_function_id_cache = <<>>
    /\ batch_run_id_to_function_id_cache = <<>>

\* C12: update_cache never bypasses a populated cache: a lookup of a cached key is
\* answered from the cache, with no request, whatever the flag; a lookup of a key
\* not cached with update_cache = false issues one request, returns the fetched
\* value (or raises when the request fails) and changes no cache, so the key is
\* still not cached and the next lookup of it fetches again.
C12_FlagOnlyGovernsStore ==
    /\ [][(AtLookup /\ LookupKey \in DOMAIN LookupCache) => ServedFromCache]_vars
    /\ [][(AtLookup /\ LookupKey \notin DOMAIN LookupCache /\ ~call.update_cache) =>
            /\ pc' = "done"
            /\ Len(log') = 1
            /\ log'[1].endpoint = (IF InGetOptimizer THEN "optimizer-configurations"
                                                     ELSE "functions")
            /\ log'[1].id = LookupKey
            /\ outcome'.kind = (IF log'[1].reply = "ok" THEN "return" ELSE "raise")
            /\ UNCHANGED caches]_vars
    /\ [][(AtLookup /\ LookupKey \notin DOMAIN LookupCache) => Len(log') = 1]_vars

C12_Witness ==
    /\ InGetOptimizer /\ pc = "done" /\ ~call.update_cache
    /\ outcome.kind = "return"
    /\ log = <<OptimizerRequest(call.optimizer_id, "ok")>>
    /\ call.optimizer_id \notin DOMAIN optimizer_function_id_cache
    /\ optimizer_function_id_cache # <<>>

InBatchRunLookup == call.op = "get_batch_run_function_id"
BatchRunMiss ==
    /\ InBatchRunLookup /\ pc = "batch_run"
    /\ call.batch_run_id \notin DOMAIN batch_run_id_to_function_id_cache

\* C14: get_batch_run_function_id(b) on a cache miss: for an integer b it requests
\* batch-run/b and goes on to resolve the configuration it was answered as optimizer
\* id; that resolution is the one of get_optimizer_function_id (cache first, else
\* one optimizer-configurations request), and when it yields function id f the call
\* stores b -> f in the batch-run cache and returns f; for a b that is not an
\* integer it raises the "not found" error with no request and no cache changed.
C14_BatchRunLookupMiss ==
    /\ [][(BatchRunMiss /\ call.batch_run_id.type = "int") =>
            /\ log' = <<BatchRunRequest(call.batch_run_id.v, log'[1].reply)>>
            /\ UNCHANGED caches
            /\ IF log'[1].reply = "ok"
               THEN pc' = "batch_run_function" /\ locals'.optimizer_id \in OptimizerIds
               ELSE pc' = "done" /\ outcome'.kind = "raise"]_vars
    /\ [][(InBatchRunLookup /\ pc = "batch_run_function") =>
            LET o == locals.optimizer_id
                hit == o \in DOMAIN optimizer_function_id_cache
            IN /\ pc' = "done"
               /\ IF hit THEN log' = log
                         ELSE \E r \in {"ok", "error"} : log' = Append(log, OptimizerRequest(o, r))
               /\ outcome'.kind = "return" =>
                    /\ o \in DOMAIN optimizer_function_id_cache'
                    /\ outcome'.value = optimizer_function_id_cache'[o]
                    /\ hit => UNCHANGED optimizer_function_id_cache
                    /\ batch_run_id_to_function_id_cache' =
                            Put(batch_run_id_to_function_id_cache, call.batch_run_id,
                                outcome'.value)
               /\ outcome'.kind = "raise" => UNCHANGED caches
               /\ UNCHANGED function_config_cache]_vars
    /\ [][(BatchRunMiss /\ call.batch_run_id.type # "int") =>
            /\ pc' = "done"
            /\ outcome' = Raise("ZenbaseAPIError", NotFound)
            /\ log' = <<>>
            /\ UNCHANGED caches]_vars

C14_Witness ==
    /\ InBatchRunLookup /\ pc = "done" /\ outcome.kind = "return"
    /\ call.batch_run_id = IntId(2)
    /\ Len(log) = 2
    /\ log[1] = BatchRunRequest(2, "ok")
    /\ log[2].endpoint = "optimizer-configurations"
    /\ batch_run_id_to_function_id_cache[IntId(2)] = outcome.value
    /\ StrId(2) \notin DOMAIN batch_run_id_to_function_id_cache

\* the error kind check_valid raises its duplicate and schema errors as
LocalValidationKind == "ValueError"

\* C16: the "not found in local batch run history" error and the "batch run not
\* completed" error are raised as the error kind of check_valid's errors, never as
\* ZenbaseAPIError.
C16_LocalErrorsOneKind ==
    (pc = "done" /\ outcome.kind = "raise" /\ outcome.message \in {NotFound, NotCompleted}) =>
        /\ outcome.error = LocalValidationKind
        /\ outcome.error # "ZenbaseAPIError"

----------------------------------------------------------------------------
(* Properties of the helper functions, checked under SpecHelpers *)

CheckValidDone == call.op = "check_valid" /\ pc = "done"
PerPageDone == call.op = "get_batch_optimizer_run_results_per_page" /\ pc = "done"

\* item i repeats the object id of an earlier item / does not conform to the schema
RepeatsId(items, i) == \E j \in 1..(i - 1) : items[j].object_id = items[i].object_id
NotConforming(items, schema, i) == items[i].inputs \notin schema
Violating(items, schema) ==
    {i \in 1..Len(items) : RepeatsId(items, i) \/ NotConforming(items, schema, i)}

C18_PerPagePartition ==
    PerPageDone =>
        LET page == call.batch_run_results
            failed == {i \in 1..Len(page) : page[i].outputs = Null}
            value == outcome.value
        IN /\ outcome.kind = "return"
           /\ value.failed_object_ids = FailedIds(page)
           /\ value.results = Successes(page)
           /\ Len(value.failed_object_ids) = Cardinality(failed)
           /\ Len(value.results) + Len(value.failed_object_ids) = Len(page)
           /\ \A k \in 1..Len(value.results) : value.results[k].outputs \in {"p", "q"}
           /\ \A i \in 1..Len(page) :
                LET before == Cardinality({j \in 1..i : (page[j].outputs = Null)
                                                          = (page[i].outputs = Null)})
                IN IF page[i].outputs = Null
                   THEN value.failed_object_ids[before] = page[i].object_id
                   ELSE value.results[before] = [object_id |-> page[i].object_id,
                                                 outputs |-> page[i].outputs.output]

C18_Witness ==
    /\ PerPageDone
    /\ call.batch_run_results = <<[object_id |-> 5, outputs |-> Null],
                                  [object_id |-> 3, outputs |-> [output |-> "q"]]>>
    /\ outcome.value = [results |-> <<[object_id |-> 3, outputs |-> "q"]>>,
                        failed_object_ids |-> <<5>>]

----------------------------------------------------------------------------
(* Properties of update_function_config, checked under SpecConfig *)

InUpdate == call.op = "update_function_config"
UpdateReturned == InUpdate /\ pc = "done" /\ outcome.kind = "return"

\* C13: a successful update_function_config(f, partial) issues one PATCH of
\* functions/f and sets function_config_cache[f] to the configuration of the
\* response, field by field; it returns that entry; no other entry of the cache and
\* no other cache changes; and a following get_function_config(f) is answered from
\* the cache with that entry and no request. A failed PATCH changes no cache.
C13_UpdateStoresResponse ==
    /\ [][(InUpdate /\ pc = "update") =>
            /\ pc' = "done"
            /\ log' = <<FunctionPatch(call.function_id, log'[1].reply)>>
            /\ UNCHANGED <<optimizer_function_id_cache, batch_run_id_to_function_id_cache>>
            /\ IF outcome'.kind = "return"
               THEN /\ Len(received') = 1
                    /\ received'[1].id = call.function_id
                    /\ DOMAIN function_config_cache'
                            = DOMAIN function_config_cache \cup {call.function_id}
                    /\ \A k \in DOMAIN function_config_cache' :
                            function_config_cache'[k] =
                                IF k = call.function_id
                                THEN [name |-> received'[1].name,
                                      model |-> received'[1].model,
                                      input_schema |-> received'[1].input_schema]
                                ELSE function_config_cache[k]
                    /\ outcome'.value = function_config_cache'[call.function_id]
               ELSE UNCHANGED caches]_vars
    /\ [](UpdateReturned =>
            /\ call.function_id \in DOMAIN function_config_cache
            /\ function_config_cache[call.function_id] = outcome.value)
    /\ [][(UpdateReturned /\ call'.op = "get_function_config"
                          /\ call'.function_id = call.function_id) =>
            /\ pc' = "function"
            /\ UNCHANGED caches]_vars
    /\ [][(InGetConfig /\ pc = "function"
                       /\ call.function_id \in DOMAIN function_config_cache) =>
            /\ pc' = "done"
            /\ log' = <<>>
            /\ outcome' = Return(function_config_cache[call.function_id])
            /\ UNCHANGED caches]_vars

C13_Witness ==
    /\ UpdateReturned
    /\ call.function_id = 1
    /\ call.function_config = [name |-> "a", model |-> None]
    /\ received = <<[id |-> 1, name |-> "b", model |-> "m1", input_schema |-> {"x"}]>>
    /\ function_config_cache[1] = [name |-> "b", model |-> "m1", input_schema |-> {"x"}]
    /\ 2 \in DOMAIN function_config_cache
    /\ function_config_cache[2].input_schema = {"x", "y"}

----------------------------------------------------------------------------
(* Properties of the decoding of answers, checked under SpecProtocol *)

\* the field the operation behind a request needs of the answer
NeededField(e) ==
    CASE e.endpoint = "optimizer-configurations" -> "function"
      [] e.endpoint = "batch-run/" -> "id"
      [] e.endpoint = "batch-run/status" -> "status"
      [] e.endpoint = "batch-run" -> "configuration"
      [] OTHER -> "id"

NeedsField(e) ==
    e.endpoint \in {"optimizer-configurations", "batch-run/", "batch-run/status", "batch-run"}

\* C15: when a 2xx JSON answer lacks the field the operation needs (function for
\* get_optimizer_function_id, id for start_batch_optimizer_run, status for
\* get_batch_optimizer_run_status, configuration for get_batch_run_function_id) the
\* operation ends raising ZenbaseAPIError, with the detail of the answer as message
\* when it has one and a generic description otherwise.
C15_MissingFieldIsApiError ==
    \A i \in 1..Len(log) :
        (/\ log[i].kind = "request" /\ log[i].reply = "json"
         /\ NeedsField(log[i])
         /\ NeededField(log[i]) \notin log[i].body.fields) =>
            /\ pc = "done"
            /\ outcome = Raise("ZenbaseAPIError",
                               IF "detail" \in log[i].body.fields THEN Detail ELSE Generic)

\* the operations that test the answer for the field they need (id, status)
TestsField(e) ==
    e.endpoint \in {"optimizer-configurations", "functions", "batch-run/", "batch-run/status"}

\* C20: in both clients an answer with status >= 400 ends the operation in
\* ZenbaseAPIError carrying the body text; a 2xx answer whose body is not JSON is
\* handed on as {text: body}, so that an operation testing for id or status ends
\* in ZenbaseAPIError by its own test.
C20_TransportErrors ==
    \A i \in 1..Len(log) :
        /\ (log[i].kind = "request" /\ log[i].reply = "http_error") =>
                /\ pc = "done"
                /\ outcome = Raise("ZenbaseAPIError", RequestFailedWithBody)
        /\ (log[i].kind = "request" /\ log[i].reply = "text" /\ TestsField(log[i])) =>
                /\ pc = "done"
                /\ outcome = Raise("ZenbaseAPIError", Generic)

----------------------------------------------------------------------------
(* Equivalence of the two clients, checked under SpecResults *)

\* what get_batch_optimizer_run_results of client v does with a run of `count`
\* records whose pages answer `records`: the pages it requests, the value it returns
PagesOf(v, count) == OneTo(Max(1, PageStop(v, count) - 1))
ValueOf(v, records) ==
    Finalize(v, [results |-> Successes(records), failed_object_ids |-> FailedIds(records)])

\* C19: on the same answers the two clients issue the same requests and end in the
\* same outcome: the page requests of a returned get_batch_optimizer_run_results
\* are the ones either client issues for the count answered, and the value it
\* returns is the one either client returns for the records answered.
C19_ClientsEquivalent ==
    Returned =>
        \A v \in Variants :
            /\ PagesRequested = PagesOf(v, remote_count)
            /\ outcome.value = ValueOf(v, received)

\* the same statement for the client that ran: it holds, so a violation of
\* C19_ClientsEquivalent is a difference between the two clients
ClientAsModelled ==
    Returned =>
        /\ PagesRequested = PagesOf(variant, remote_count)
        /\ outcome.value = ValueOf(variant, received)

----------------------------------------------------------------------------
(* Properties of the connection context of an AsyncZenbaseClient, checked under
   SpecAsync *)

OpenContexts == {i \in DOMAIN contexts : contexts[i] = "open"}

\* the scoped lifetime has ended: __aexit__ closed the context the client holds
\* and no __aenter__ has replaced it since
ScopeEnded == session # NoSession /\ contexts[session] = "closed"

\* C21: once __aexit__ has ended the scoped lifetime of the client, every
\* connection context the client created, by a request or by __aenter__, is
\* closed: none is open.
C21_ExitClosesEveryContext ==
    ScopeEnded => OpenContexts = {}

\* C23: the client has at most one open connection context at any time, and an
\* open context is the one self.session refers to: none is open and unreferenced.
C23_OneOpenContext ==
    /\ Cardinality(OpenContexts) <= 1
    /\ \A i \in OpenContexts : i = session

----------------------------------------------------------------------------
(* Properties of concurrent calls on one AsyncZenbaseClient, checked under
   SpecRace *)

EndpointOf(op) == IF op = "get_optimizer_function_id" THEN "optimizer-configurations"
                                                       ELSE "functions"

\* the value the service supplied in an answer
Supplied(e) == IF e.endpoint = "functions" THEN e.config ELSE e.function

\* the answers about key of the cache of endpoint, and those the client stored
AnswersFor(endpoint, key) ==
    {i \in 1..Len(log) : log[i].endpoint = endpoint /\ log[i].id = key}
StoredFor(endpoint, key) ==
    {i \in AnswersFor(endpoint, key) :
        log[i].method = "PATCH" \/ tasks[log[i].task].update_cache}

CacheOf(endpoint) == IF endpoint = "functions" THEN function_config_cache
                                               ELSE optimizer_function_id_cache

Last(S) == CHOOSE i \in S : \A j \in S : j <= i

\* task t ends its call in this step
Ends(t) == tasks[t].pc # "done" /\ tasks'[t].pc = "done"

\* C22: with lookups of several tasks interleaved at the await, each cache holds
\* exactly the keys some stored answer was about, and for each key the value of
\* the last of them (the last write), a value the service supplied for that key;
\* a lookup that has returned has returned a value the service supplied for its
\* key; and a step changes a cache at the key of the one call that ends in it and
\* nowhere else: no other entry is added, changed or removed.
C22_RacingLookups ==
    /\ [](\A endpoint \in {"optimizer-configurations", "functions"} :
            /\ \A key \in OptimizerIds \cup FunctionIds :
                    key \in DOMAIN CacheOf(endpoint) <=> StoredFor(endpoint, key) # {}
            /\ \A key \in DOMAIN CacheOf(endpoint) :
                    CacheOf(endpoint)[key] = Supplied(log[Last(StoredFor(endpoint, key))]))
    /\ [](\A t \in TaskIds :
            (tasks[t].pc = "done" /\ tasks[t].op \in LookupOps
                                  /\ tasks[t].outcome.kind = "return") =>
                \E i \in AnswersFor(EndpointOf(tasks[t].op), tasks[t].key) :
                    tasks[t].outcome.value = Supplied(log[i]))
    /\ [][/\ UNCHANGED batch_run_id_to_function_id_cache
          /\ \A op \in LookupOps :
                LET before == TaskCache(op)
                    after == IF op = "get_optimizer_function_id"
                             THEN optimizer_function_id_cache'
                             ELSE function_config_cache'
                IN /\ DOMAIN before \subseteq DOMAIN after
                   /\ \A key \in DOMAIN after :
                        (key \notin DOMAIN before \/ after[key] # before[key]) =>
                            \E t \in TaskIds :
                                /\ Ends(t)
                                /\ tasks[t].key = key
                                /\ EndpointOf(tasks[t].op) = EndpointOf(op)
                                /\ tasks'[t].outcome = Return(after[key])]_vars

\* both tasks looked up optimizer 1 before either was answered; the answers
\* differ, and the cache holds the later one
C22_Witness ==
    /\ \A t \in {1, 2} :
            /\ tasks[t].op = "get_optimizer_function_id"
            /\ tasks[t].key = 1 /\ tasks[t].update_cache
            /\ tasks[t].pc = "done"
    /\ log = <<FunctionAnswer(1, 1, 2), FunctionAnswer(2, 1, 1)>>
    /\ tasks[1].outcome = Return(2)
    /\ tasks[2].outcome = Return(1)
    /\ optimizer_function_id_cache[1] = 1

\* the PATCH answers about function f, and an update of f that has not ended
PatchesFor(f) == {i \in AnswersFor("functions", f) : log[i].method = "PATCH"}
UpdatePending(f) ==
    \E t \in TaskIds : /\ tasks[t].op = "update_function_config"
                       /\ tasks[t].key = f
                       /\ tasks[t].pc \in {"called", "await"}

\* C24: once an update_function_config(f, ...) has completed and no other update
\* of f is under way, function_config_cache[f] is the configuration that update
\* returned, also when a get_function_config(f) of another task was awaiting its
\* answer while the update ran.
C24_UpdateNotOverwritten ==
    \A f \in FunctionIds :
        (PatchesFor(f) # {} /\ ~UpdatePending(f)) =>
            /\ f \in DOMAIN function_config_cache
            /\ function_config_cache[f] = log[Last(PatchesFor(f))].config

----------------------------------------------------------------------------
(* Properties of the lifetime of cache entries, checked under SpecCaches *)

InDelete == call.op = "delete_batch_optimizer_run"

----------------------------------------------------------------------------
(* Items without object_id, checked under Spec *)

\* the items of a list that have no object_id, and the position of the second
NoIdItems(items) == {i \in 1..Len(items) : items[i].object_id = NoObjectId}
SecondNoId(items) ==
    CHOOSE i \in NoIdItems(items) : Cardinality({j \in NoIdItems(items) : j < i}) = 1

\* C26: start_batch_optimizer_run sends its POST only for a list with at most one
\* item without object_id; a list with two or more such items ends the call in
\* ValueError, with no POST, once the input schema is resolved; and when no item
\* up to the second of them repeats an object id or fails the schema, the error
\* is the duplicate error raised at that second item, whose object id is None.
C26_OneItemWithoutObjectId ==
    /\ []((InStart /\ pc = "start_post") =>
            Cardinality(NoIdItems(locals.inputs_list)) <= 1)
    /\ [][(/\ InStart /\ pc = "start_config" /\ pc' # pc
           /\ Cardinality(NoIdItems(locals.inputs_list)) >= 2
           /\ ~(outcome'.kind = "raise" /\ outcome'.message = RequestFailed)) =>
            LET items == locals.inputs_list
                schema == function_config_cache'[locals.function_id].input_schema
                second == SecondNoId(items)
            IN /\ pc' = "done"
               /\ outcome'.kind = "raise" /\ outcome'.error = "ValueError"
               /\ ~HasPost'
               /\ UNCHANGED batch_run_id_to_function_id_cache
               /\ (\A i \in 1..second :
                        /\ items[i].inputs \in schema
                        /\ i < second => ~RepeatsId(items, i)) =>
                    /\ outcome'.message = "already exists in the list"
                    /\ outcome'.object_id = NoObjectId]_vars

\* every inputs mapping conforms to the schema resolved, and the call has ended in
\* the duplicate error about an item without object_id
C26_Witness ==
    /\ InStart /\ pc = "done"
    /\ outcome.kind = "raise" /\ outcome.error = "ValueError"
    /\ outcome.message = "already exists in the list"
    /\ outcome.object_id = NoObjectId
    /\ Len(log) = 2
    /\ function_config_cache[optimizer_function_id_cache[call.optimizer_id]].input_schema
            = InputValues

====
